---- MODULE Spec2Model ----
(***************************************************************************)
(* Amount formatting of packages/blade/src/components/Amount/Amount.tsx:   *)
(* getFlooredFixed, addCommas, getHumanizedAmount, formatAmountWithSuffix  *)
(* and the _Amount component's development-mode checks.                    *)
(*                                                                         *)
(* Numbers.  A JavaScript number is modelled as a sign-and-magnitude       *)
(* decimal fixed-point value with FracDigits fractional digits:            *)
(*   [kind |-> "num", neg, int, frac]  stands for  (+/-)(int + frac/FracScale) *)
(* (neg with a zero magnitude is JavaScript's -0), kind "nan" is NaN and   *)
(* kind "str" is a non-number value (a non-numeric string) handed to the   *)
(* component.  Arithmetic is exact decimal arithmetic; the inputs are      *)
(* chosen off exact decimal rounding ties, where a binary double would lie *)
(* on one side of the tie.                                                 *)
(*                                                                         *)
(* Strings are sequences of one-character strings.                         *)
(***************************************************************************)
EXTENDS Integers, Sequences, FiniteSets, TLC

\* Largest decimalPlaces passed to getFlooredFixed / addCommas by the model.
MaxDecimalPlaces == 2

RECURSIVE Pow(_, _)
Pow(b, n) == IF n = 0 THEN 1 ELSE b * Pow(b, n - 1)

\* Fractional digits kept by the number model: one more than the finest
\* position 100 ** decimalPlaces can address.
FracDigits == 2 * MaxDecimalPlaces + 1
FracScale == Pow(10, FracDigits)

Max(a, b) == IF a >= b THEN a ELSE b

----------------------------------------------------------------------------
(* Numbers                                                                 *)

Num(neg, int, frac) == [kind |-> "num", neg |-> neg, int |-> int, frac |-> frac]
NaN == [kind |-> "nan", neg |-> FALSE, int |-> 0, frac |-> 0]
\* A value whose typeof is not 'number' (a non-numeric string such as "abc").
NonNumber == [kind |-> "str", neg |-> FALSE, int |-> 0, frac |-> 0]
NonNumberText == <<"a", "b", "c">>

FromInt(n) == Num(FALSE, n, 0)
IsZero(x) == x.int = 0 /\ x.frac = 0

\* typeof value === 'number'  (NaN is a number)
IsNumberType(x) == x.kind \in {"num", "nan"}

\* ToNumber: a non-numeric string converts to NaN.
ToNumber(x) == IF x.kind = "num" THEN x ELSE NaN

MagLt(a, b) == a.int < b.int \/ (a.int = b.int /\ a.frac < b.frac)

\* a < b on numbers (-0 and 0 are equal; any comparison with NaN is false)
NumLt(a, b) ==
  IF a.kind # "num" \/ b.kind # "num" THEN FALSE
  ELSE IF IsZero(a) /\ IsZero(b) THEN FALSE
  ELSE IF a.neg /\ ~b.neg THEN TRUE
  ELSE IF ~a.neg /\ b.neg THEN FALSE
  ELSE IF a.neg THEN MagLt(b, a)
  ELSE MagLt(a, b)

\* a == b on numbers
NumEq(a, b) ==
  /\ a.kind = "num"
  /\ b.kind = "num"
  /\ \/ IsZero(a) /\ IsZero(b)
     \/ a = b

NumLe(a, b) == NumLt(a, b) \/ NumEq(a, b)

\* a >= b  (JavaScript: false when either side is NaN)
NumGe(a, b) == NumLe(ToNumber(b), ToNumber(a))

\* The magnitude int + frac/FracScale with frac possibly equal to FracScale.
Carry(neg, int, frac) ==
  IF frac >= FracScale THEN Num(neg, int + 1, frac - FracScale)
  ELSE Num(neg, int, frac)

\* Math.floor(value * factor) / factor, for factor a power of ten.
\* value * factor = int * factor + frac * factor / FracScale, and the first
\* term is an integer, so the floor only acts on the digits of frac below
\* 1/factor: step is the weight of one unit of 1/factor in frac.
FloorScaled(value, factor) ==
  IF value.kind # "num" THEN NaN
  ELSE
    LET step == IF factor >= FracScale THEN 1 ELSE FracScale \div factor
        r == value.frac % step
    IN  IF r = 0 THEN value
        ELSE IF ~value.neg THEN Num(FALSE, value.int, value.frac - r)
        ELSE Carry(TRUE, value.int, value.frac - r + step)

\* The magnitude of x rounded to `digits` fractional digits, ties away from
\* zero (toFixed's "pick the larger n"; Intl's default half-expand).
\* digits <= FracDigits.
RoundMagnitude(x, digits) ==
  LET step == FracScale \div Pow(10, digits)
      r == x.frac % step
      base == x.frac - r
  IN  IF 2 * r >= step THEN Carry(x.neg, x.int, base + step)
      ELSE Num(x.neg, x.int, base)

\* amountValue / divisor for a positive power-of-ten divisor; the quotient
\* keeps FracDigits fractional digits (further digits are dropped).
\* With q = int \div divisor and rem = int % divisor, the fraction of the
\* quotient is (rem + frac/FracScale) / divisor.
Divide(x, divisor) ==
  IF x.kind # "num" THEN NaN
  ELSE
    LET q == x.int \div divisor
        rem == x.int % divisor
        f == IF divisor >= FracScale
             THEN rem \div (divisor \div FracScale)
             ELSE rem * (FracScale \div divisor) + (x.frac \div divisor)
    IN  Num(x.neg, q, f)

----------------------------------------------------------------------------
(* Number <-> string conversions                                           *)

Digits == <<"0", "1", "2", "3", "4", "5", "6", "7", "8", "9">>
DigitChar(k) == Digits[k + 1]
DigitValue(c) == CHOOSE k \in 0..9 : Digits[k + 1] = c

\* Decimal digits of a natural number, most significant first.
RECURSIVE IntToStr(_)
IntToStr(n) == IF n < 10 THEN <<DigitChar(n)>>
               ELSE Append(IntToStr(n \div 10), DigitChar(n % 10))

\* The natural number n as exactly `width` digits (zero-padded on the left).
RECURSIVE Padded(_, _)
Padded(n, width) == IF width = 0 THEN <<>>
                    ELSE Append(Padded(n \div 10, width - 1), DigitChar(n % 10))

RECURSIVE StrToInt(_)
StrToInt(s) == IF s = <<>> THEN 0
               ELSE 10 * StrToInt(SubSeq(s, 1, Len(s) - 1)) + DigitValue(s[Len(s)])

RECURSIVE StripTrailingZeros(_, _)
\* Drops trailing "0"s of a digit string, keeping at least `keep` digits.
StripTrailingZeros(s, keep) ==
  IF Len(s) > keep /\ s[Len(s)] = "0"
  THEN StripTrailingZeros(SubSeq(s, 1, Len(s) - 1), keep)
  ELSE s

\* Index of the first "." in s, or 0.
IndexOfDot(s) ==
  IF \E i \in 1..Len(s) : s[i] = "."
  THEN CHOOSE i \in 1..Len(s) : s[i] = "." /\ \A j \in 1..(i - 1) : s[j] # "."
  ELSE 0

NaNText == <<"N", "a", "N">>

\* Number.prototype.toFixed(decimalPlaces): the sign when x < 0 (so none for
\* -0), the magnitude rounded to decimalPlaces digits, exactly that many
\* digits after the point.
toFixed(x, decimalPlaces) ==
  IF x.kind # "num" THEN NaNText
  ELSE
    LET m == RoundMagnitude(x, decimalPlaces)
        sign == IF x.neg /\ ~IsZero(x) THEN <<"-">> ELSE <<>>
        fracPart ==
          IF decimalPlaces = 0 THEN <<>>
          ELSE <<".">> \o Padded(m.frac \div (FracScale \div Pow(10, decimalPlaces)),
                                  decimalPlaces)
    IN  sign \o IntToStr(m.int) \o fracPart

\* Number(string) on the strings toFixed produces: "NaN", or an optional
\* "-", integer digits and an optional "." with fractional digits.
ParseNumber(s) ==
  IF s = NaNText THEN NaN
  ELSE
    LET neg == s[1] = "-"
        body == IF neg THEN SubSeq(s, 2, Len(s)) ELSE s
        dot == IndexOfDot(body)
        intPart == IF dot = 0 THEN body ELSE SubSeq(body, 1, dot - 1)
        fracPart == IF dot = 0 THEN <<>> ELSE SubSeq(body, dot + 1, Len(body))
    IN  Num(neg, StrToInt(intPart),
            StrToInt(fracPart) * Pow(10, FracDigits - Len(fracPart)))

\* Number.prototype.toString(): shortest decimal form, no grouping; -0 is "0".
\* A string value returns itself.
toString(x) ==
  IF x.kind = "nan" THEN NaNText
  ELSE IF x.kind = "str" THEN NonNumberText
  ELSE
    LET sign == IF x.neg /\ ~IsZero(x) THEN <<"-">> ELSE <<>>
        frac == StripTrailingZeros(Padded(x.frac, FracDigits), 0)
    IN  sign \o IntToStr(x.int) \o (IF frac = <<>> THEN <<>> ELSE <<".">> \o frac)

\* Digit grouping of an integer digit string: the rightmost group has `first`
\* digits, the groups to its left `rest` digits each.
RECURSIVE Group(_, _, _)
Group(s, first, rest) ==
  IF Len(s) <= first THEN s
  ELSE Group(SubSeq(s, 1, Len(s) - first), rest, rest)
       \o <<",">> \o SubSeq(s, Len(s) - first + 1, Len(s))

\* en-IN groups 3 then 2,2,...; en-US groups 3,3,...
GroupFor(locale, s) == IF locale = "en-IN" THEN Group(s, 3, 2) ELSE Group(s, 3, 3)

\* Number.prototype.toLocaleString(locale, { minimumFractionDigits }):
\* maximumFractionDigits defaults to max(minimumFractionDigits, 3); the value
\* is rounded to the maximum, trailing zeros are dropped down to the minimum,
\* the integer part is grouped by the locale; a negative number (and -0)
\* carries "-".
toLocaleString(x, locale, minimumFractionDigits) ==
  IF x.kind # "num" THEN NaNText
  ELSE
    LET maximumFractionDigits == Max(minimumFractionDigits, 3)
        m == RoundMagnitude(x, maximumFractionDigits)
        sign == IF x.neg THEN <<"-">> ELSE <<>>
        frac == StripTrailingZeros(
                  Padded(m.frac \div (FracScale \div Pow(10, maximumFractionDigits)),
                         maximumFractionDigits),
                  minimumFractionDigits)
    IN  sign \o GroupFor(locale, IntToStr(m.int))
             \o (IF frac = <<>> THEN <<>> ELSE <<".">> \o frac)

----------------------------------------------------------------------------
(* Amount.tsx                                                              *)

Undefined == "undefined"

Currencies == {"INR", "USD", "MYR"}

\* const factor = 100 ** decimalPlaces;
Factor(decimalPlaces) == Pow(100, decimalPlaces)

\* getFlooredFixed scaling up by 10 ** decimalPlaces and down by
\* 100 ** decimalPlaces.
getFlooredFixed_mismatchedFactor(value, decimalPlaces) ==
  LET scaled == FloorScaled(ToNumber(value), Pow(10, decimalPlaces))
      roundedValue == Divide(scaled, Pow(10, decimalPlaces))
  IN  ParseNumber(toFixed(roundedValue, decimalPlaces))

getFlooredFixed(value, decimalPlaces) ==
  LET factor == Factor(decimalPlaces)
      roundedValue == FloorScaled(ToNumber(value), factor)
  IN  ParseNumber(toFixed(roundedValue, decimalPlaces))

\* The locale not depending on the currency.
Locale_alwaysUS(currency) == "en-US"

Locale(currency) == IF currency = "INR" THEN "en-IN" ELSE "en-US"

\* addCommas not passing minimumFractionDigits on.
addCommas_noMinimum(amountValue, currency, decimalPlaces) ==
  toLocaleString(amountValue, Locale(currency), 0)

addCommas(amountValue, currency, decimalPlaces) ==
  toLocaleString(amountValue, Locale(currency), decimalPlaces)

\* The abbreviation rules of a currency, in descending threshold order.
getCurrencyAbbreviations(currency) ==
  IF currency = "INR"
  THEN << [value |-> 10000000, symbol |-> <<"C", "r">>],
          [value |-> 100000, symbol |-> <<"L">>],
          [value |-> 1000, symbol |-> <<"K">>] >>
  ELSE << [value |-> 1000000000, symbol |-> <<"B">>],
          [value |-> 1000000, symbol |-> <<"M">>],
          [value |-> 1000, symbol |-> <<"K">>] >>

NoAbbreviation == [value |-> 0, symbol |-> <<>>]

\* find with a strict comparison: amountValue > abbr.value
FindAbbreviation_strict(abbreviations, amountValue) ==
  LET hits == {i \in 1..Len(abbreviations) :
                 NumLt(FromInt(abbreviations[i].value), ToNumber(amountValue))}
  IN  IF hits = {} THEN NoAbbreviation
      ELSE abbreviations[CHOOSE i \in hits : \A j \in hits : i <= j]

\* abbreviations.find((abbr) => amountValue >= abbr.value)
FindAbbreviation(abbreviations, amountValue) ==
  LET hits == {i \in 1..Len(abbreviations) :
                 NumGe(amountValue, FromInt(abbreviations[i].value))}
  IN  IF hits = {} THEN NoAbbreviation
      ELSE abbreviations[CHOOSE i \in hits : \A j \in hits : i <= j]

\* getHumanizedAmount formatting the unabbreviated value like suffix 'none'.
getHumanizedAmount_formattedFallback(amountValue, currency) ==
  LET abbreviations == getCurrencyAbbreviations(currency)
      abbreviation == FindAbbreviation(abbreviations, amountValue)
  IN  IF abbreviation # NoAbbreviation
      THEN LET divided == Divide(ToNumber(amountValue), abbreviation.value)
               formattedAmountValue == getFlooredFixed(divided, 2)
           IN  addCommas(formattedAmountValue, currency, 0) \o abbreviation.symbol
      ELSE addCommas(getFlooredFixed(amountValue, 0), currency, 0)

getHumanizedAmount(amountValue, currency) ==
  LET abbreviations == getCurrencyAbbreviations(currency)
      abbreviation == FindAbbreviation(abbreviations, amountValue)
  IN  IF abbreviation # NoAbbreviation
      THEN LET divided == Divide(ToNumber(amountValue), abbreviation.value)
               formattedAmountValue == getFlooredFixed(divided, 2)
           IN  addCommas(formattedAmountValue, currency, 0) \o abbreviation.symbol
      ELSE toString(amountValue)

\* formatAmountWithSuffix whose default branch is the 'decimals' branch.
formatAmountWithSuffix_defaultDecimals(suffix, value, currency) ==
  CASE suffix = "humanize" -> getHumanizedAmount(value, currency)
    [] suffix = "none" -> addCommas(getFlooredFixed(value, 0), currency, 0)
    [] OTHER -> addCommas(getFlooredFixed(value, 2), currency, 2)

formatAmountWithSuffix(suffix, value, currency) ==
  CASE suffix = "decimals" ->
         LET decimalNumber == getFlooredFixed(value, 2)
         IN  addCommas(decimalNumber, currency, 2)
    [] suffix = "humanize" -> getHumanizedAmount(value, currency)
    [] suffix = "none" -> addCommas(getFlooredFixed(value, 0), currency, 0)
    [] OTHER -> addCommas(getFlooredFixed(value, 0), currency, 0)

\* currencyPrefixMapping[currency][prefix]
currencyPrefixMapping(currency, prefix) == <<currency, prefix>>

\* throwBladeError({ message, moduleName }): throws, so the render ends with
\* nothing looked up and nothing formatted.
throwBladeError(message) ==
  [thrown |-> message, steps |-> <<>>, currencyPrefix |-> <<>>, renderedValue |-> <<>>]

ValueMessage == "value prop must be of type number for Amount."
IntentMessage == "neutral intent is not supported."

\* _Amount running its checks whatever the build.
_Amount_checksAlways(value, suffixProp, intent, prefix, currency, dev) ==
  LET suffix == IF suffixProp = Undefined THEN "decimals" ELSE suffixProp
  IN  IF ~IsNumberType(value) THEN throwBladeError(ValueMessage)
      ELSE IF intent = "neutral" THEN throwBladeError(IntentMessage)
      ELSE [thrown |-> "none",
            steps |-> <<"currencyPrefixMapping", "formatAmountWithSuffix">>,
            currencyPrefix |-> currencyPrefixMapping(currency, prefix),
            renderedValue |-> formatAmountWithSuffix(suffix, value, currency)]

\* The _Amount component up to the value it hands to AmountValue.  `dev` is
\* the build flag __DEV__.  steps lists, in order, what ran after the
\* development checks; thrown is the message of the error that ended the
\* render ("none" when it did not throw).
_Amount(value, suffixProp, intent, prefix, currency, dev) ==
  LET suffix == IF suffixProp = Undefined THEN "decimals" ELSE suffixProp
  IN  IF dev /\ ~IsNumberType(value) THEN throwBladeError(ValueMessage)
      ELSE IF dev /\ intent = "neutral" THEN throwBladeError(IntentMessage)
      ELSE [thrown |-> "none",
            steps |-> <<"currencyPrefixMapping", "formatAmountWithSuffix">>,
            currencyPrefix |-> currencyPrefixMapping(currency, prefix),
            renderedValue |-> formatAmountWithSuffix(suffix, value, currency)]

\* suffix = 'decimals' (the default parameter of _Amount)
DefaultSuffix(suffixProp) == IF suffixProp = Undefined THEN "decimals" ELSE suffixProp

\* Index of the first separator in s, or 0.
IndexOf(s, separator) ==
  IF \E i \in 1..Len(s) : s[i] = separator
  THEN CHOOSE i \in 1..Len(s) :
         s[i] = separator /\ \A j \in 1..(i - 1) : s[j] # separator
  ELSE 0

\* String.prototype.split(separator): the pieces between the separators.
RECURSIVE Split(_, _)
Split(s, separator) ==
  LET i == IndexOf(s, separator)
  IN  IF i = 0 THEN <<s>>
      ELSE <<SubSeq(s, 1, i - 1)>> \o Split(SubSeq(s, i + 1, Len(s)), separator)

\* AmountValue reading the decimal segment one piece too far: split('.')[2]
AmountValue_wrongIndex(value, suffix, isAffixSubtle) ==
  IF suffix = "decimals" /\ isAffixSubtle
  THEN LET pieces == Split(value, ".")
           integer == pieces[1]
           decimal == IF Len(pieces) >= 3 THEN pieces[3] ELSE <<>>
       IN  <<integer \o <<".">>, IF decimal # <<>> THEN decimal ELSE <<"0", "0">>>>
  ELSE <<value>>

\* The text children AmountValue renders, in order: "{integer}." and
\* "{decimal || '00'}" for suffix 'decimals' with isAffixSubtle, else the
\* value alone.  A missing piece (undefined) and the empty string are both
\* falsy; both are <<>> here.
AmountValue(value, suffix, isAffixSubtle) ==
  IF suffix = "decimals" /\ isAffixSubtle
  THEN LET pieces == Split(value, ".")
           integer == pieces[1]
           decimal == IF Len(pieces) >= 2 THEN pieces[2] ELSE <<>>
       IN  <<integer \o <<".">>, IF decimal # <<>> THEN decimal ELSE <<"0", "0">>>>
  ELSE <<value>>

----------------------------------------------------------------------------
(* Inputs                                                                  *)

\* Integer parts: around every abbreviation threshold, and the documented examples.
Wholes == {0, 1, 12, 500, 999, 1000, 1234, 1999, 2000, 99999, 100000,
           1234567, 9999999, 10000000, 1000000000}

\* Fractional parts, in hundred-thousandths:
\* 0, .00001, .004, .1, .5, .56, .567, .994, .996, .999, .99999
FracInputs == {0, 1, 400, 10000, 50000, 56000, 56700, 99400, 99600, 99900, 99999}

Values == {Num(neg, w, f * Pow(10, FracDigits - 5)) :
             neg \in BOOLEAN, w \in Wholes, f \in FracInputs}

\* Values offered to the component: numbers, NaN and a non-number.
ComponentValues ==
  {Num(neg, w, f * Pow(10, FracDigits - 5)) :
     neg \in BOOLEAN, w \in {0, 500, 1234, 2000, 1234567}, f \in {0, 56700}}
  \cup {NaN, NonNumber}

DecimalPlaces == 0..MaxDecimalPlaces

\* The three policies, a policy the type does not list, and undefined.
Suffixes == {"decimals", "humanize", "none", "compact", Undefined}

Intents == {Undefined, "positive", "neutral"}
Prefixes == {"currency-symbol", "currency-code"}

----------------------------------------------------------------------------
(* State: the last call and what it returned                               *)

VARIABLES
  op,             \* the function that was called ("init" between calls)
  value,          \* its value / amountValue argument
  currency,       \* its currency argument
  suffix,         \* its suffix argument
  decimalPlaces,  \* its decimalPlaces argument
  intent,         \* the component's intent prop
  prefix,         \* the component's prefix prop
  dev,            \* __DEV__ of the build the component ran in
  number,         \* the number returned (getFlooredFixed)
  text,           \* the string returned
  abbreviation,   \* the rule getHumanizedAmount selected
  thrown,         \* the error thrown, "none" if none
  steps,          \* what the component ran after its checks
  isAffixSubtle,  \* the component's isAffixSubtle prop (default true)
  shown           \* the text children AmountValue rendered

vars == <<op, value, currency, suffix, decimalPlaces, intent, prefix, dev,
          number, text, abbreviation, thrown, steps, isAffixSubtle, shown>>

Init ==
  /\ op = "init"
  /\ value = FromInt(0)
  /\ currency = "INR"
  /\ suffix = Undefined
  /\ decimalPlaces = 0
  /\ intent = Undefined
  /\ prefix = "currency-symbol"
  /\ dev = FALSE
  /\ number = NaN
  /\ text = <<>>
  /\ abbreviation = NoAbbreviation
  /\ thrown = "none"
  /\ steps = <<>>
  /\ isAffixSubtle = TRUE
  /\ shown = <<>>

CallGetFlooredFixed ==
  /\ op = "init"
  /\ \E v \in Values, d \in DecimalPlaces :
      /\ op' = "getFlooredFixed"
      /\ value' = v
      /\ decimalPlaces' = d
      /\ number' = getFlooredFixed(v, d)
      /\ text' = <<>>
      /\ abbreviation' = NoAbbreviation
      /\ thrown' = "none"
      /\ steps' = <<>>
      /\ shown' = <<>>
      /\ UNCHANGED isAffixSubtle
      /\ UNCHANGED <<currency, suffix, intent, prefix, dev>>

CallAddCommas ==
  /\ op = "init"
  /\ \E v \in Values, c \in Currencies, d \in DecimalPlaces :
      /\ op' = "addCommas"
      /\ value' = v
      /\ currency' = c
      /\ decimalPlaces' = d
      /\ text' = addCommas(v, c, d)
      /\ number' = NaN
      /\ abbreviation' = NoAbbreviation
      /\ thrown' = "none"
      /\ steps' = <<>>
      /\ shown' = <<>>
      /\ UNCHANGED isAffixSubtle
      /\ UNCHANGED <<suffix, intent, prefix, dev>>

CallGetHumanizedAmount ==
  /\ op = "init"
  /\ \E v \in Values, c \in Currencies :
      /\ op' = "getHumanizedAmount"
      /\ value' = v
      /\ currency' = c
      /\ abbreviation' = FindAbbreviation(getCurrencyAbbreviations(c), v)
      /\ text' = getHumanizedAmount(v, c)
      /\ number' = NaN
      /\ thrown' = "none"
      /\ steps' = <<>>
      /\ shown' = <<>>
      /\ UNCHANGED isAffixSubtle
      /\ UNCHANGED <<suffix, decimalPlaces, intent, prefix, dev>>

CallFormatAmountWithSuffix ==
  /\ op = "init"
  /\ \E s \in Suffixes, v \in Values, c \in Currencies :
      /\ op' = "formatAmountWithSuffix"
      /\ suffix' = s
      /\ value' = v
      /\ currency' = c
      /\ text' = formatAmountWithSuffix(s, v, c)
      /\ number' = NaN
      /\ abbreviation' = NoAbbreviation
      /\ thrown' = "none"
      /\ steps' = <<>>
      /\ shown' = <<>>
      /\ UNCHANGED isAffixSubtle
      /\ UNCHANGED <<decimalPlaces, intent, prefix, dev>>

Render ==
  /\ op = "init"
  /\ \E v \in ComponentValues, s \in Suffixes, i \in Intents, p \in Prefixes,
       c \in Currencies, d \in BOOLEAN, a \in BOOLEAN :
      LET r == _Amount(v, s, i, p, c, d)
      IN  /\ op' = "Amount"
          /\ isAffixSubtle' = a
          /\ shown' = IF r.thrown = "none"
                      THEN AmountValue(r.renderedValue, DefaultSuffix(s), a)
                      ELSE <<>>
          /\ value' = v
          /\ suffix' = s
          /\ intent' = i
          /\ prefix' = p
          /\ currency' = c
          /\ dev' = d
          /\ thrown' = r.thrown
          /\ steps' = r.steps
          /\ text' = r.renderedValue
          /\ number' = NaN
          /\ abbreviation' = NoAbbreviation
          /\ UNCHANGED decimalPlaces

\* The call has returned and its result been consumed: the caller is free to
\* make its next call (every function is stateless).
Return ==
  /\ op # "init"
  /\ op' = "init"
  /\ value' = FromInt(0)
  /\ currency' = "INR"
  /\ suffix' = Undefined
  /\ decimalPlaces' = 0
  /\ intent' = Undefined
  /\ prefix' = "currency-symbol"
  /\ dev' = FALSE
  /\ number' = NaN
  /\ text' = <<>>
  /\ abbreviation' = NoAbbreviation
  /\ thrown' = "none"
  /\ steps' = <<>>
  /\ isAffixSubtle' = TRUE
  /\ shown' = <<>>

Next ==
  \/ CallGetFlooredFixed
  \/ CallAddCommas
  \/ CallGetHumanizedAmount
  \/ CallFormatAmountWithSuffix
  \/ Render
  \/ Return

Spec == Init /\ [][Next]_vars

----------------------------------------------------------------------------
(* Vocabulary of the properties                                            *)

\* v rounded toward negative infinity to d fractional digits.
FlooredTo(v, d) == FloorScaled(v, Pow(10, d))

\* 0 <= v - r < 10^-d, for r <= v.
WithinOneUnit(v, r, d) ==
  /\ v.int - r.int \in {0, 1}
  /\ (v.int - r.int) * FracScale + v.frac - r.frac < FracScale \div Pow(10, d)

\* Number of characters after the decimal point of s (0 without a point).
FractionLength(s) == IF IndexOfDot(s) = 0 THEN 0 ELSE Len(s) - IndexOfDot(s)

\* Number of significant fractional digits of the number v.
FractionDigitsOf(v) == Len(StripTrailingZeros(Padded(v.frac, FracDigits), 0))

\* A comma follows the digit that has k digits to its right: every third
\* digit in Western grouping; after the last three, every second in Indian.
CommaAfter(k, indian) ==
  /\ k > 0
  /\ IF indian THEN k = 3 \/ (k > 3 /\ (k - 3) % 2 = 0) ELSE k % 3 = 0

RECURSIVE WithCommas(_, _)
WithCommas(digits, indian) ==
  IF digits = <<>> THEN <<>>
  ELSE <<Head(digits)>>
       \o (IF CommaAfter(Len(digits) - 1, indian) THEN <<",">> ELSE <<>>)
       \o WithCommas(Tail(digits), indian)

\* The number x written with grouping chosen by the currency and exactly d
\* fractional digits (x has no more than d).
Rendering(x, cur, d) ==
  (IF x.neg /\ ~IsZero(x) THEN <<"-">> ELSE <<>>)
  \o WithCommas(IntToStr(x.int), cur = "INR")
  \o (IF d = 0 THEN <<>>
      ELSE <<".">> \o Padded(x.frac \div (FracScale \div Pow(10, d)), d))

InputValue(w, f) == Num(FALSE, w, f * Pow(10, FracDigits - 5))

----------------------------------------------------------------------------
(* Properties                                                              *)

\* C1: for a non-negative value v, getFlooredFixed(v, d) never exceeds v and
\* differs from v by less than 10^-d.
C1_FlooredNeverExceeds ==
  (op = "getFlooredFixed" /\ ~value.neg) =>
    /\ NumLe(number, value)
    /\ WithinOneUnit(value, number, decimalPlaces)

\* C2: with suffix 'decimals' formatAmountWithSuffix returns the grouped
\* rendering of the value floored to 2 fractional digits, with exactly 2
\* digits after the point; 1234.567 in INR gives "1,234.56".
C2_DecimalsFloored ==
  (op = "formatAmountWithSuffix" /\ suffix = "decimals") =>
    /\ text = Rendering(FlooredTo(value, 2), currency, 2)
    /\ FractionLength(text) = 2
    /\ (value = InputValue(1234, 56700) /\ currency = "INR")
         => text = <<"1", ",", "2", "3", "4", ".", "5", "6">>

\* C8: getFlooredFixed is idempotent: applied to its own result with the same
\* decimalPlaces it returns that result.
C8_FlooredIdempotent ==
  op = "getFlooredFixed" =>
    NumEq(getFlooredFixed(number, decimalPlaces), number)

\* A call whose result differs from its argument (digits were dropped).
C8_Witness ==
  /\ op = "getFlooredFixed"
  /\ decimalPlaces = 2
  /\ value = InputValue(1234, 56700)
  /\ ~NumEq(number, value)

\* The rules of a currency whose threshold is <= v, by position.
RulesAtMost(cur, v) ==
  {i \in 1..Len(getCurrencyAbbreviations(cur)) :
     NumLe(FromInt(getCurrencyAbbreviations(cur)[i].value), v)}

\* C3: getHumanizedAmount applies the first rule, in the currency's
\* descending order, whose threshold is <= the value; a value equal to a
\* threshold selects that rule; the selected threshold never exceeds the value.
C3_FirstRuleAtMostValue ==
  op = "getHumanizedAmount" =>
    LET rules == getCurrencyAbbreviations(currency)
        hits == RulesAtMost(currency, value)
    IN  /\ hits = {} => abbreviation = NoAbbreviation
        /\ hits # {} =>
             \E i \in hits :
               /\ abbreviation = rules[i]
               /\ \A j \in 1..(i - 1) : j \notin hits
               /\ NumLe(FromInt(abbreviation.value), value)
               /\ SubSeq(text, Len(text) - Len(rules[i].symbol) + 1, Len(text))
                    = rules[i].symbol
        /\ \A i \in 1..Len(rules) :
             NumEq(value, FromInt(rules[i].value)) => abbreviation = rules[i]

\* A value exactly on a threshold, with a smaller rule also at most the value.
C3_Witness ==
  /\ op = "getHumanizedAmount"
  /\ currency = "INR"
  /\ value = InputValue(100000, 0)
  /\ abbreviation.symbol = <<"L">>
  /\ text = <<"1", "L">>

\* C4: when a rule matches, the result is addCommas of value / threshold
\* floored to 2 fractional digits (never above value / threshold), followed
\* by the rule's symbol; 2000 in INR gives "2K".
C4_HumanizedFloored ==
  (op = "getHumanizedAmount" /\ abbreviation # NoAbbreviation) =>
    LET quotient == Divide(value, abbreviation.value)
    IN  /\ text = addCommas(FlooredTo(quotient, 2), currency, 0) \o abbreviation.symbol
        /\ (value = InputValue(2000, 0) /\ currency = "INR") => text = <<"2", "K">>

PlainChars == {Digits[i] : i \in 1..10} \cup {"-", "."}

\* C6: below every threshold of the currency getHumanizedAmount returns the
\* plain string of the unmodified value: no flooring, no grouping, no symbol;
\* 500 in INR gives "500".
C6_BelowThresholdsPlain ==
  (op = "getHumanizedAmount" /\ value.kind = "num"
     /\ RulesAtMost(currency, value) = {}) =>
    /\ \A i \in 1..Len(text) : text[i] \in PlainChars
    /\ NumEq(ParseNumber(text), value)
    /\ (value = InputValue(500, 0) /\ currency = "INR") => text = <<"5", "0", "0">>

\* A value below 1000 with fractional digits, returned digit for digit.
C6_Witness ==
  /\ op = "getHumanizedAmount"
  /\ currency = "INR"
  /\ value = InputValue(999, 56700)
  /\ abbreviation = NoAbbreviation
  /\ text = <<"9", "9", "9", ".", "5", "6", "7">>

C7_UnknownSuffixAsNone ==
  (op = "formatAmountWithSuffix" /\ suffix \notin {"decimals", "humanize", "none"}) =>
    /\ text = formatAmountWithSuffix("none", value, currency)
    /\ thrown = "none"

\* An unlisted policy on a value with fractional digits, Indian grouping.
C7_Witness ==
  /\ op = "formatAmountWithSuffix"
  /\ suffix = "compact"
  /\ currency = "INR"
  /\ value = InputValue(1234567, 56000)
  /\ text = <<"1", "2", ",", "3", "4", ",", "5", "6", "7">>

\* C9: with suffix 'none' the result is the floor of the value to an integer,
\* with no fractional digits and with grouping chosen by the currency alone:
\* Indian for INR, Western otherwise; 1234567 in USD gives "1,234,567".
C9_NoneFlooredGrouped ==
  (op = "formatAmountWithSuffix" /\ suffix = "none" /\ value.kind = "num") =>
    /\ text = Rendering(FlooredTo(value, 0), currency, 0)
    /\ IndexOfDot(text) = 0
    /\ (value = InputValue(1234567, 0) /\ currency = "USD")
         => text = <<"1", ",", "2", "3", "4", ",", "5", "6", "7">>

\* A fractional value in INR: floored, grouped 2-2-3.
C9_Witness ==
  /\ op = "formatAmountWithSuffix"
  /\ suffix = "none"
  /\ currency = "INR"
  /\ value = InputValue(1234567, 99600)
  /\ text = <<"1", "2", ",", "3", "4", ",", "5", "6", "7">>

\* C10: in a development build a non-number value and the 'neutral' intent
\* end the render with an error before the prefix lookup and the formatting;
\* in a production build neither check runs and the value is formatted.
C10_DevChecksFirst ==
  op = "Amount" =>
    LET invalid == ~IsNumberType(value) \/ intent = "neutral"
        policy == IF suffix = Undefined THEN "decimals" ELSE suffix
    IN  /\ (dev /\ invalid) =>
              /\ thrown \in {ValueMessage, IntentMessage}
              /\ steps = <<>>
              /\ text = <<>>
        /\ (dev /\ ~IsNumberType(value)) => thrown = ValueMessage
        /\ (dev /\ IsNumberType(value) /\ intent = "neutral") => thrown = IntentMessage
        /\ (~dev \/ ~invalid) =>
              /\ thrown = "none"
              /\ steps = <<"currencyPrefixMapping", "formatAmountWithSuffix">>
              /\ text = formatAmountWithSuffix(policy, value, currency)

\* A production render of a non-number value with the neutral intent.
C10_Witness ==
  /\ op = "Amount"
  /\ ~dev
  /\ value = NonNumber
  /\ intent = "neutral"
  /\ suffix = "humanize"
  /\ thrown = "none"
  /\ text = NonNumberText

\* The component rendered the split form: suffix 'decimals' (given or by
\* default) with isAffixSubtle, and no error ended the render.
SplitRendered ==
  /\ op = "Amount"
  /\ thrown = "none"
  /\ DefaultSuffix(suffix) = "decimals"
  /\ isAffixSubtle

\* The two segments are "{integer}." and a decimal segment of exactly two
\* digits, and together they are the string formatAmountWithSuffix returned.
SegmentsReproduceText ==
  /\ Len(shown) = 2
  /\ Len(shown[2]) = 2
  /\ \A i \in 1..2 : shown[2][i] \in {Digits[k] : k \in 1..10}
  /\ shown[1][Len(shown[1])] = "."
  /\ IndexOf(SubSeq(shown[1], 1, Len(shown[1]) - 1), ".") = 0
  /\ shown[1] \o shown[2] = text
  /\ text = formatAmountWithSuffix("decimals", value, currency)

\* C11 as stated: with suffix 'decimals' and isAffixSubtle, for every value
\* of type number the decimal segment shown is exactly two digits and the
\* segments joined by '.' are the string formatAmountWithSuffix returned.
C11_SegmentsForEveryNumber ==
  (SplitRendered /\ IsNumberType(value)) => SegmentsReproduceText

\* C11, amended: the same for every finite number (NaN, whose string "NaN"
\* has no decimal point, is shown as "NaN." and "00").
C11_SegmentsForFiniteNumber ==
  (SplitRendered /\ value.kind = "num") => SegmentsReproduceText

\* The default suffix, a value with fractional digits, Indian grouping.
C11_Witness ==
  /\ SplitRendered
  /\ suffix = Undefined
  /\ currency = "INR"
  /\ value = InputValue(1234567, 56700)
  /\ text = <<"1", "2", ",", "3", "4", ",", "5", "6", "7", ".", "5", "7">>
  /\ shown = << <<"1", "2", ",", "3", "4", ",", "5", "6", "7", ".">>, <<"5", "7">> >>

====
